---- MODULE Spec2Model ----
(***************************************************************************)
(* Polar Connect Backend (src/main.py): the process-wide TOKEN_STORE, the  *)
(* token helpers and the HTTP handlers, one action per handler.            *)
(*                                                                         *)
(* Python values: None is the string None below; a JSON object is a        *)
(* function from key strings to values, and d.get(k, default) is Get.      *)
(* Strings that the code slices or compares (dates) are sequences of       *)
(* character codes.  time.time() is the integer variable now; it does not  *)
(* advance inside one handler.                                             *)
(***************************************************************************)
EXTENDS Integers, Sequences, FiniteSets, TLC

VARIABLES TOKEN_STORE,  \* the in-memory token record
          now,          \* time.time(), whole seconds
          configured,   \* POLAR_CLIENT_ID, _SECRET and _REDIRECT_URI all set
          exercises,    \* the upstream's answer to GET /v3/exercises and to each detail call
          req,          \* the request handled last (or waiting): endpoint and query parameters
          resp,         \* the response to that request
          calls,        \* the upstream calls that request issued, in order, with their answers
          reg,          \* what _register_user_if_needed did in that request
          exchanged,    \* some code exchange was answered with status < 400
          threads       \* SpecRefresh: where each concurrent _refresh_token_if_needed stands

vars == <<TOKEN_STORE, now, configured, exercises, req, resp, calls, reg, exchanged, threads>>

----------------------------------------------------------------------------
(* Bounds *)

MaxTime == 2     \* the clock runs from 0 to MaxTime
MaxItems == 3    \* longest upstream exercise listing (SpecWorkouts)
MaxLimit == 3    \* largest `limit` query value (SpecWorkouts)
NumThreads == 2  \* concurrent requests (SpecRefresh)

----------------------------------------------------------------------------
(* Python values *)

\* Every Python string is a sequence of character codes.  None is a value
\* distinct from every string: code -1 occurs in no string.
None == <<-1>>
EmptyStr == <<>>

\* bool(v) for a string or None: None and "" are falsy
Truthy(v) == v # None /\ v # EmptyStr

\* a or b
PyOr(a, b) == IF Truthy(a) THEN a ELSE b

\* d.get(k, default), d a JSON object (a function on its keys)
Get(d, k, default) == IF k \in DOMAIN d THEN d[k] ELSE default

\* the JSON object {}
EmptyObj == [k \in {} |-> None]

\* max(a, b)
Max(a, b) == IF a >= b THEN a ELSE b

\* str <= str: lexicographic on character codes, a proper prefix is smaller
RECURSIVE StrLe(_, _)
StrLe(a, b) ==
    IF a = <<>> THEN TRUE
    ELSE IF b = <<>> THEN FALSE
    ELSE IF Head(a) < Head(b) THEN TRUE
    ELSE IF Head(a) > Head(b) THEN FALSE
    ELSE StrLe(Tail(a), Tail(b))

\* s[:n]
Prefix(s, n) == SubSeq(s, 1, IF Len(s) < n THEN Len(s) ELSE n)

----------------------------------------------------------------------------
(* The strings of the model *)

\* access tokens "a1", "a2"; refresh tokens "r1", "r2"; user ids "u1", "u2"
A1 == <<97, 49>>
A2 == <<97, 50>>
R1 == <<114, 49>>
R2 == <<114, 50>>
U1 == <<117, 49>>
U2 == <<117, 50>>

\* the exercise id at position i of a listing: "e1", "e2", ...
ExId(i) == <<101, 48 + i>>

\* zero-padded decimal of width 2 and 4
Fmt2(n) == <<48 + (n \div 10), 48 + (n % 10)>>
Fmt4(n) == Fmt2(n \div 100) \o Fmt2(n % 100)

\* "YYYY-MM-DD"
DateStr(y, m, d) == Fmt4(y) \o <<45>> \o Fmt2(m) \o <<45>> \o Fmt2(d)

\* four days in calendar order, their date strings, and an ISO start time
\* "YYYY-MM-DDThh" on one of them
Day1 == <<2023, 12, 31>>
Day2 == <<2024, 1, 9>>
Day3 == <<2024, 1, 10>>
Day4 == <<2024, 2, 1>>
DateOf(day) == DateStr(day[1], day[2], day[3])
StartTime(day, h) == DateOf(day) \o <<84>> \o Fmt2(h)

----------------------------------------------------------------------------
(* TOKEN_STORE and the helpers *)

SafetyBuffer == 60
DateLen == 10

TOKEN_STORE_Init ==
    [access_token |-> None, refresh_token |-> None, expires_at |-> 0,
     connected |-> FALSE, polar_user_id |-> None]

\* an HTTPException, and "nothing raised"
HTTPException(status, detail) == [kind |-> "error", status |-> status, detail |-> detail]
NoError == [kind |-> "none", status |-> 0, detail |-> "none"]
Raised(e) == e.kind # "none"

\* JSON null in the answer field expires_in, which otherwise holds a number
\* (no answer carries this number itself); int() of it raises TypeError,
\* which is no HTTPException and ends the request with status 500
Null == -1000
TypeError == [kind |-> "fault", status |-> 500, detail |-> "int_expires_in"]
IntRaises(data) == Get(data, "expires_in", 0) = Null

\* an upstream answer: HTTP status and JSON body
Answer(status, body) == [status |-> status, body |-> body]

\* an upstream call with the answer it got; id is the exercise id of a
\* detail call, None otherwise
Call(op, id, ans) == [op |-> op, id |-> id, status |-> ans.status, body |-> ans.body]

\* a response of this service: "ok" with a JSON body, "error" for an
\* HTTPException, "fault" for any other exception (500)
Response(kind, status, detail, body) ==
    [kind |-> kind, status |-> status, detail |-> detail, body |-> body]
Ok(body) == Response("ok", 200, "ok", body)
Err(e) == Response(e.kind, e.status, e.detail, EmptyObj)
Fault(what) == Response("fault", 500, what, EmptyObj)

\* _require_config: the exception it raises, if any
_require_config(cfg) ==
    IF cfg THEN NoError ELSE HTTPException(500, "missing_env_vars")

\* _polar_headers_json: the exception it raises, if any
_polar_headers_json(s) ==
    IF ~Truthy(s.access_token) THEN HTTPException(401, "no_access_token") ELSE NoError

\* faulty variant of _is_token_valid: the boundary counted as valid
_is_token_valid_le(s, t) ==
    s.access_token # None /\ t <= (s.expires_at - SafetyBuffer)

\* _is_token_valid on store s at time t
_is_token_valid(s, t) ==
    s.access_token # None /\ t < (s.expires_at - SafetyBuffer)

\* faulty variants of RefreshWrite: refresh_token overwritten even when the
\* answer has none; connected set only when the answer has an access token
RefreshWrite_overwrite(s, t, data) ==
    [s EXCEPT !.access_token = Get(data, "access_token", None),
              !.refresh_token = Get(data, "refresh_token", None),
              !.expires_at = t + Get(data, "expires_in", 0),
              !.connected = TRUE]

RefreshWrite_connected(s, t, data) ==
    [s EXCEPT !.access_token = Get(data, "access_token", None),
              !.refresh_token = PyOr(Get(data, "refresh_token", None), s.refresh_token),
              !.expires_at = t + Get(data, "expires_in", 0),
              !.connected = Truthy(Get(data, "access_token", None))]

\* the store after lines 89-90 alone: int() at line 91 raised
RefreshWriteTokens(s, data) ==
    [s EXCEPT !.access_token = Get(data, "access_token", None),
              !.refresh_token = PyOr(Get(data, "refresh_token", None), s.refresh_token)]

\* the store after a successful refresh answer with JSON body data
RefreshWrite(s, t, data) ==
    [s EXCEPT !.access_token = Get(data, "access_token", None),
              !.refresh_token = PyOr(Get(data, "refresh_token", None), s.refresh_token),
              !.expires_at = t + Get(data, "expires_in", 0),
              !.connected = TRUE]

\* faulty variant of _refresh_token_if_needed: no check of refresh_token
_refresh_token_if_needed_unguarded(s, t, cfg, ans) ==
    IF _is_token_valid(s, t)
    THEN [store |-> s, raised |-> NoError, calls |-> <<>>]
    ELSE IF Raised(_require_config(cfg))
    THEN [store |-> s, raised |-> _require_config(cfg), calls |-> <<>>]
    ELSE IF ans.status >= 400
    THEN [store |-> s, raised |-> HTTPException(400, "refresh_failed"),
          calls |-> <<Call("token_refresh", None, ans)>>]
    ELSE IF IntRaises(ans.body)
    THEN [store |-> RefreshWriteTokens(s, ans.body), raised |-> TypeError,
          calls |-> <<Call("token_refresh", None, ans)>>]
    ELSE [store |-> RefreshWrite(s, t, ans.body), raised |-> NoError,
          calls |-> <<Call("token_refresh", None, ans)>>]

\* faulty variant of _refresh_token_if_needed: a rejected refresh drops the
\* stored tokens
_refresh_token_if_needed_forget(s, t, cfg, ans) ==
    IF _is_token_valid(s, t)
    THEN [store |-> s, raised |-> NoError, calls |-> <<>>]
    ELSE IF ~Truthy(s.refresh_token)
    THEN [store |-> s, raised |-> HTTPException(401, "not_connected"), calls |-> <<>>]
    ELSE IF Raised(_require_config(cfg))
    THEN [store |-> s, raised |-> _require_config(cfg), calls |-> <<>>]
    ELSE IF ans.status >= 400
    THEN [store |-> [s EXCEPT !.access_token = None, !.refresh_token = None],
          raised |-> HTTPException(400, "refresh_failed"),
          calls |-> <<Call("token_refresh", None, ans)>>]
    ELSE IF IntRaises(ans.body)
    THEN [store |-> RefreshWriteTokens(s, ans.body), raised |-> TypeError,
          calls |-> <<Call("token_refresh", None, ans)>>]
    ELSE [store |-> RefreshWrite(s, t, ans.body), raised |-> NoError,
          calls |-> <<Call("token_refresh", None, ans)>>]

\* faulty variant of _refresh_token_if_needed: no early return on a valid
\* token
_refresh_token_if_needed_eager(s, t, cfg, ans) ==
    IF ~Truthy(s.refresh_token)
    THEN [store |-> s, raised |-> HTTPException(401, "not_connected"), calls |-> <<>>]
    ELSE IF Raised(_require_config(cfg))
    THEN [store |-> s, raised |-> _require_config(cfg), calls |-> <<>>]
    ELSE IF ans.status >= 400
    THEN [store |-> s, raised |-> HTTPException(400, "refresh_failed"),
          calls |-> <<Call("token_refresh", None, ans)>>]
    ELSE IF IntRaises(ans.body)
    THEN [store |-> RefreshWriteTokens(s, ans.body), raised |-> TypeError,
          calls |-> <<Call("token_refresh", None, ans)>>]
    ELSE [store |-> RefreshWrite(s, t, ans.body), raised |-> NoError,
          calls |-> <<Call("token_refresh", None, ans)>>]

\* _refresh_token_if_needed on store s at time t; ans is the answer the
\* token endpoint gives if it is asked
_refresh_token_if_needed(s, t, cfg, ans) ==
    IF _is_token_valid(s, t)
    THEN [store |-> s, raised |-> NoError, calls |-> <<>>]
    ELSE IF ~Truthy(s.refresh_token)
    THEN [store |-> s, raised |-> HTTPException(401, "not_connected"), calls |-> <<>>]
    ELSE IF Raised(_require_config(cfg))
    THEN [store |-> s, raised |-> _require_config(cfg), calls |-> <<>>]
    ELSE IF ans.status >= 400
    THEN [store |-> s, raised |-> HTTPException(400, "refresh_failed"),
          calls |-> <<Call("token_refresh", None, ans)>>]
    ELSE IF IntRaises(ans.body)
    THEN [store |-> RefreshWriteTokens(s, ans.body), raised |-> TypeError,
          calls |-> <<Call("token_refresh", None, ans)>>]
    ELSE [store |-> RefreshWrite(s, t, ans.body), raised |-> NoError,
          calls |-> <<Call("token_refresh", None, ans)>>]

\* what _register_user_if_needed did: whether it ran, the store it ran on,
\* whether it POSTed, the upstream status (0 without POST), the id read
\* from the answer, whether it raised, the value returned (None if raised)
RegInfo(called, before, posted, status, answered, raised, ret) ==
    [called |-> called, before |-> before, posted |-> posted, status |-> status,
     answered |-> answered, raised |-> raised, ret |-> ret]
NotCalled == RegInfo(FALSE, TOKEN_STORE_Init, FALSE, 0, None, FALSE, None)

\* the user id read from a registration answer
UserIdOf(data) ==
    PyOr(PyOr(Get(data, "user-id", None), Get(data, "user_id", None)), Get(data, "id", None))

\* faulty variants of _register_user_if_needed: no early return on a stored
\* id; no 409 branch
_register_user_if_needed_always(s, ans) ==
    IF ans.status = 409
    THEN [store |-> s, raised |-> NoError, calls |-> <<Call("register", None, ans)>>,
          info |-> RegInfo(TRUE, s, TRUE, 409, None, FALSE, s.polar_user_id)]
    ELSE IF ans.status >= 400
    THEN [store |-> s, raised |-> HTTPException(400, "register_user_failed"),
          calls |-> <<Call("register", None, ans)>>,
          info |-> RegInfo(TRUE, s, TRUE, ans.status, None, TRUE, None)]
    ELSE [store |-> [s EXCEPT !.polar_user_id = UserIdOf(ans.body)],
          raised |-> NoError, calls |-> <<Call("register", None, ans)>>,
          info |-> RegInfo(TRUE, s, TRUE, ans.status, UserIdOf(ans.body), FALSE,
                           UserIdOf(ans.body))]

_register_user_if_needed_no409(s, ans) ==
    IF Truthy(s.polar_user_id)
    THEN [store |-> s, raised |-> NoError, calls |-> <<>>,
          info |-> RegInfo(TRUE, s, FALSE, 0, None, FALSE, s.polar_user_id)]
    ELSE IF ans.status >= 400
    THEN [store |-> s, raised |-> HTTPException(400, "register_user_failed"),
          calls |-> <<Call("register", None, ans)>>,
          info |-> RegInfo(TRUE, s, TRUE, ans.status, None, TRUE, None)]
    ELSE [store |-> [s EXCEPT !.polar_user_id = UserIdOf(ans.body)],
          raised |-> NoError, calls |-> <<Call("register", None, ans)>>,
          info |-> RegInfo(TRUE, s, TRUE, ans.status, UserIdOf(ans.body), FALSE,
                           UserIdOf(ans.body))]

\* _register_user_if_needed on store s; ans is the answer POST /v3/users
\* gives if it is asked
_register_user_if_needed(s, ans) ==
    IF Truthy(s.polar_user_id)
    THEN [store |-> s, raised |-> NoError, calls |-> <<>>,
          info |-> RegInfo(TRUE, s, FALSE, 0, None, FALSE, s.polar_user_id)]
    ELSE IF ans.status = 409
    THEN [store |-> s, raised |-> NoError, calls |-> <<Call("register", None, ans)>>,
          info |-> RegInfo(TRUE, s, TRUE, 409, None, FALSE, s.polar_user_id)]
    ELSE IF ans.status >= 400
    THEN [store |-> s, raised |-> HTTPException(400, "register_user_failed"),
          calls |-> <<Call("register", None, ans)>>,
          info |-> RegInfo(TRUE, s, TRUE, ans.status, None, TRUE, None)]
    ELSE [store |-> [s EXCEPT !.polar_user_id = UserIdOf(ans.body)],
          raised |-> NoError, calls |-> <<Call("register", None, ans)>>,
          info |-> RegInfo(TRUE, s, TRUE, ans.status, UserIdOf(ans.body), FALSE,
                           UserIdOf(ans.body))]

\* faulty variant of _date_in_range: `end` excluded
_date_in_range_exclusive(date_yyyy_mm_dd, start, end) ==
    StrLe(start, date_yyyy_mm_dd) /\ StrLe(date_yyyy_mm_dd, end) /\ date_yyyy_mm_dd # end

\* _date_in_range
_date_in_range(date_yyyy_mm_dd, start, end) ==
    StrLe(start, date_yyyy_mm_dd) /\ StrLe(date_yyyy_mm_dd, end)

----------------------------------------------------------------------------
(* GET /polar/workouts *)

\* the first spelling of the exercise id that is present
ExerciseIdOf(ex) ==
    PyOr(PyOr(Get(ex, "id", None), Get(ex, "exerciseId", None)), Get(ex, "exercise_id", None))

\* the first spelling of the start time that is present
StartTimeOf(d) ==
    PyOr(PyOr(Get(d, "start-time", None), Get(d, "start_time", None)), Get(d, "startTime", None))

\* one entry of the result (id and startTime; the other fields are copied
\* from the detail record and play no part in selection)
Workout(ex_id, start_time) == [id |-> ex_id, startTime |-> start_time]

\* the date filter of the loop body: TRUE when the item is skipped
OutOfRange(start_time, start, to) ==
    Truthy(start_time) /\ ~_date_in_range(Prefix(start_time, DateLen), start, to)

\* faulty variant of DetailFailed: only 5xx skipped
DetailFailed_server(d_resp) == d_resp.status >= 500

\* `if d_resp.status_code >= 400: continue`
DetailFailed(d_resp) == d_resp.status >= 400

\* faulty variant of LimitReached: one item too late
LimitReached_gt(workouts, limit) == Len(workouts) > limit

\* `if len(workouts) >= limit: break`
LimitReached(workouts, limit) == Len(workouts) >= limit

\* the `for ex in exercises` loop from position i on: items[i].ex is the
\* listed exercise, items[i].detail the answer its detail call gets
RECURSIVE CollectWorkouts(_, _, _, _, _, _, _, _)
CollectWorkouts(items, i, workouts, cs, s, start, to, limit) ==
    IF i > Len(items)
    THEN [workouts |-> workouts, calls |-> cs, raised |-> NoError]
    ELSE LET ex_id == ExerciseIdOf(items[i].ex)
             d_resp == items[i].detail
             start_time == StartTimeOf(d_resp.body)
             appended == Append(workouts, Workout(ex_id, start_time))
             called == Append(cs, Call("detail", ex_id, d_resp))
         IN  IF ~Truthy(ex_id)
             THEN CollectWorkouts(items, i + 1, workouts, cs, s, start, to, limit)
             ELSE IF Raised(_polar_headers_json(s))
             THEN [workouts |-> workouts, calls |-> cs, raised |-> _polar_headers_json(s)]
             ELSE IF DetailFailed(d_resp)
             THEN CollectWorkouts(items, i + 1, workouts, called, s, start, to, limit)
             ELSE IF OutOfRange(start_time, start, to)
             THEN CollectWorkouts(items, i + 1, workouts, called, s, start, to, limit)
             ELSE IF LimitReached(appended, limit)
             THEN [workouts |-> appended, calls |-> called, raised |-> NoError]
             ELSE CollectWorkouts(items, i + 1, appended, called, s, start, to, limit)

\* the result of a handler: the store it leaves, its response, its upstream
\* calls, and what _register_user_if_needed did
Outcome(s, r, cs, info) == [store |-> s, resp |-> r, calls |-> cs, info |-> info]

\* the body of polar_workouts after registration, on store s
ListAndCollect(s, cs, info, start, to, limit, lst) ==
    IF Raised(_polar_headers_json(s))
    THEN Outcome(s, Err(_polar_headers_json(s)), cs, info)
    ELSE LET cs1 == Append(cs, Call("list", None, Answer(lst.status, EmptyObj)))
         IN  IF lst.status >= 400
             THEN Outcome(s, Err(HTTPException(lst.status, "list_exercises_failed")), cs1, info)
             ELSE IF lst.shape = "list"
             THEN Outcome(s, Fault("list_has_no_get"), cs1, info)
             ELSE LET c == CollectWorkouts(lst.exercises, 1, <<>>, cs1, s, start, to, limit)
                  IN  IF Raised(c.raised)
                      THEN Outcome(s, Err(c.raised), c.calls, info)
                      ELSE Outcome(s,
                                   Ok([workouts |-> c.workouts, from |-> start,
                                       to |-> to, count |-> Len(c.workouts)]),
                                   c.calls, info)

\* faulty variant of polar_workouts: a registration error is swallowed as in
\* the callback
WorkoutsOutcome_softfail(s, t, cfg, q, tok, rg, lst) ==
    LET rf == _refresh_token_if_needed(s, t, cfg, tok)
        start == PyOr(q.from_alias, q.from_date)
        ru == _register_user_if_needed(rf.store, rg)
    IN  IF Raised(rf.raised)
        THEN Outcome(rf.store, Err(rf.raised), rf.calls, NotCalled)
        ELSE IF ~Truthy(start)
        THEN Outcome(rf.store, Err(HTTPException(422, "missing_from_date")), rf.calls, NotCalled)
        ELSE ListAndCollect(ru.store, rf.calls \o ru.calls, ru.info, start, q.to, q.limit, lst)

\* polar_workouts: q the query parameters, tok / rg / lst the answers of the
\* token, registration and exercise-list endpoints if they are asked
WorkoutsOutcome(s, t, cfg, q, tok, rg, lst) ==
    LET rf == _refresh_token_if_needed(s, t, cfg, tok)
        start == PyOr(q.from_alias, q.from_date)
        ru == _register_user_if_needed(rf.store, rg)
    IN  IF Raised(rf.raised)
        THEN Outcome(rf.store, Err(rf.raised), rf.calls, NotCalled)
        ELSE IF ~Truthy(start)
        THEN Outcome(rf.store, Err(HTTPException(422, "missing_from_date")), rf.calls, NotCalled)
        ELSE IF Raised(ru.raised)
        THEN Outcome(ru.store, Err(ru.raised), rf.calls \o ru.calls, ru.info)
        ELSE ListAndCollect(ru.store, rf.calls \o ru.calls, ru.info, start, q.to, q.limit, lst)

\* polar_sleep and polar_sync: the same precondition chain, then a stub body
StubOutcome(s, t, cfg, tok, rg, detail) ==
    LET rf == _refresh_token_if_needed(s, t, cfg, tok)
        ru == _register_user_if_needed(rf.store, rg)
    IN  IF Raised(rf.raised)
        THEN Outcome(rf.store, Err(rf.raised), rf.calls, NotCalled)
        ELSE IF Raised(ru.raised)
        THEN Outcome(ru.store, Err(ru.raised), rf.calls \o ru.calls, ru.info)
        ELSE Outcome(ru.store, Response("ok", 200, detail, EmptyObj), rf.calls \o ru.calls, ru.info)

----------------------------------------------------------------------------
(* The OAuth endpoints and the status endpoints *)

\* the store after lines 203-204 alone: int() at line 205 raised
ExchangeWriteTokens(s, data) ==
    [s EXCEPT !.access_token = Get(data, "access_token", None),
              !.refresh_token = Get(data, "refresh_token", None)]

\* the store after a successful code exchange answer with JSON body data
ExchangeWrite(s, t, data) ==
    [s EXCEPT !.access_token = Get(data, "access_token", None),
              !.refresh_token = Get(data, "refresh_token", None),
              !.expires_at = t + Get(data, "expires_in", 0),
              !.connected = TRUE]

\* faulty variants of polar_oauth_callback: the token fields written before
\* the status of the exchange is looked at; a registration failure not caught
CallbackOutcome_early_write(s, t, cfg, code, tok, rg) ==
    LET written == ExchangeWrite(s, t, tok.body)
        cs == <<Call("token_exchange", None, tok)>>
        ru == _register_user_if_needed(written, rg)
        expires_in == Max(0, ru.store.expires_at - t)
    IN  IF Raised(_require_config(cfg))
        THEN Outcome(s, Err(_require_config(cfg)), <<>>, NotCalled)
        ELSE IF ~Truthy(code)
        THEN Outcome(s, Err(HTTPException(400, "missing_code")), <<>>, NotCalled)
        ELSE IF tok.status >= 400
        THEN Outcome(written, Err(HTTPException(400, "token_exchange_failed")), cs, NotCalled)
        ELSE IF IntRaises(tok.body)
        THEN Outcome(ExchangeWriteTokens(s, tok.body), Err(TypeError), cs, NotCalled)
        ELSE IF Raised(ru.raised)
        THEN Outcome(ru.store,
                     Ok([ok |-> FALSE, token_expires_in |-> expires_in]),
                     cs \o ru.calls, ru.info)
        ELSE Outcome(ru.store,
                     Ok([ok |-> TRUE, token_expires_in |-> expires_in,
                         polar_user_id |-> ru.store.polar_user_id]),
                     cs \o ru.calls, ru.info)

CallbackOutcome_uncaught(s, t, cfg, code, tok, rg) ==
    LET written == ExchangeWrite(s, t, tok.body)
        cs == <<Call("token_exchange", None, tok)>>
        ru == _register_user_if_needed(written, rg)
        expires_in == Max(0, ru.store.expires_at - t)
    IN  IF Raised(_require_config(cfg))
        THEN Outcome(s, Err(_require_config(cfg)), <<>>, NotCalled)
        ELSE IF ~Truthy(code)
        THEN Outcome(s, Err(HTTPException(400, "missing_code")), <<>>, NotCalled)
        ELSE IF tok.status >= 400
        THEN Outcome(s, Err(HTTPException(400, "token_exchange_failed")), cs, NotCalled)
        ELSE IF IntRaises(tok.body)
        THEN Outcome(ExchangeWriteTokens(s, tok.body), Err(TypeError), cs, NotCalled)
        ELSE IF Raised(ru.raised)
        THEN Outcome(ru.store, Err(ru.raised), cs \o ru.calls, ru.info)
        ELSE Outcome(ru.store,
                     Ok([ok |-> TRUE, token_expires_in |-> expires_in,
                         polar_user_id |-> ru.store.polar_user_id]),
                     cs \o ru.calls, ru.info)

\* polar_oauth_callback: code the query parameter (None when missing), tok
\* and rg the answers of the token and registration endpoints if asked
CallbackOutcome(s, t, cfg, code, tok, rg) ==
    LET written == ExchangeWrite(s, t, tok.body)
        cs == <<Call("token_exchange", None, tok)>>
        ru == _register_user_if_needed(written, rg)
        expires_in == Max(0, ru.store.expires_at - t)
    IN  IF Raised(_require_config(cfg))
        THEN Outcome(s, Err(_require_config(cfg)), <<>>, NotCalled)
        ELSE IF ~Truthy(code)
        THEN Outcome(s, Err(HTTPException(400, "missing_code")), <<>>, NotCalled)
        ELSE IF tok.status >= 400
        THEN Outcome(s, Err(HTTPException(400, "token_exchange_failed")), cs, NotCalled)
        ELSE IF IntRaises(tok.body)
        THEN Outcome(ExchangeWriteTokens(s, tok.body), Err(TypeError), cs, NotCalled)
        ELSE IF Raised(ru.raised)
        THEN Outcome(ru.store,
                     Ok([ok |-> FALSE, token_expires_in |-> expires_in]),
                     cs \o ru.calls, ru.info)
        ELSE Outcome(ru.store,
                     Ok([ok |-> TRUE, token_expires_in |-> expires_in,
                         polar_user_id |-> ru.store.polar_user_id]),
                     cs \o ru.calls, ru.info)

\* polar_status
StatusOutcome(s, t) ==
    Outcome(s,
            Ok([connected |-> s.connected,
                has_access_token |-> s.access_token # None,
                expires_at |-> s.expires_at,
                expires_in |-> Max(0, s.expires_at - t),
                polar_user_id |-> s.polar_user_id]),
            <<>>, NotCalled)

\* root
RootOutcome(s) == Outcome(s, Ok([ok |-> TRUE]), <<>>, NotCalled)

\* polar_oauth_start
StartOutcome(s, cfg) ==
    IF Raised(_require_config(cfg))
    THEN Outcome(s, Err(_require_config(cfg)), <<>>, NotCalled)
    ELSE Outcome(s, Response("ok", 307, "redirect", EmptyObj), <<>>, NotCalled)

----------------------------------------------------------------------------
(* What the environment sends *)

Failure == Answer(400, EmptyObj)

\* answers of the token endpoint
TokenAnswers ==
    { Answer(200, [access_token |-> A1, refresh_token |-> R1, expires_in |-> 61]),
      Answer(200, [access_token |-> A2, expires_in |-> 62]),
      Answer(200, [access_token |-> A2, refresh_token |-> R2]),
      Answer(200, [access_token |-> A1, refresh_token |-> EmptyStr, expires_in |-> 61]),
      Answer(200, [refresh_token |-> R1, expires_in |-> 61]),
      Answer(200, [access_token |-> A2, expires_in |-> Null]),
      Failure }

\* answers of POST /v3/users
RegisterAnswers ==
    { Answer(200, ("user-id" :> U1)),
      Answer(200, [user_id |-> U2]),
      Answer(200, [id |-> U1]),
      Answer(200, EmptyObj),
      Answer(409, EmptyObj),
      Failure }

\* the answers an endpoint can give to a handler: one placeholder when the
\* helper does not contact it
TokenChoices(s, t, cfg) ==
    IF _refresh_token_if_needed(s, t, cfg, Failure).calls = <<>>
    THEN {Failure} ELSE TokenAnswers
RegisterChoices(s) ==
    IF _register_user_if_needed(s, Failure).calls = <<>>
    THEN {Failure} ELSE RegisterAnswers

\* a listed exercise with its detail answer
Item(ex, detail) == [ex |-> ex, detail |-> detail]

\* the items that can stand at position i of the listing: one without id,
\* one whose detail call fails, one without start time, one per day
ItemsAt(i) ==
    { Item(EmptyObj, Answer(200, EmptyObj)),
      Item([id |-> ExId(i)], Answer(404, EmptyObj)),
      Item([id |-> ExId(i)], Answer(200, [sport |-> "RUNNING"])),
      Item([id |-> ExId(i)], Answer(200, ("start-time" :> StartTime(Day1, 23)))),
      Item([exerciseId |-> ExId(i)], Answer(200, [start_time |-> StartTime(Day2, 0)])),
      Item([exercise_id |-> ExId(i)], Answer(200, [startTime |-> StartTime(Day3, 23)])),
      Item([id |-> ExId(i)], Answer(200, ("start-time" :> StartTime(Day4, 7)))) }

\* the listings of exactly n items
RECURSIVE ItemSeqs(_)
ItemSeqs(n) ==
    IF n = 0 THEN {<<>>}
    ELSE {Append(p, it) : p \in ItemSeqs(n - 1), it \in ItemsAt(n)}

\* the answer of GET /v3/exercises: status, shape of the JSON, the items
Listing(status, shape, items) == [status |-> status, shape |-> shape, exercises |-> items]

\* a /polar/workouts query; `to` is required and limit is in 1..200
Query(from_date, from_alias, to, limit) ==
    [op |-> "workouts", from_date |-> from_date, from_alias |-> from_alias,
     to |-> to, limit |-> limit]
Other(op) == [op |-> op, from_date |-> None, from_alias |-> None, to |-> None, limit |-> 0]

\* a /auth/polar/callback request; code is None when the parameter is missing
CallbackReq(code) ==
    [op |-> "callback", code |-> code, from_date |-> None, from_alias |-> None,
     to |-> None, limit |-> 0]

----------------------------------------------------------------------------
(* Actions: one per endpoint *)

\* no request is inside _refresh_token_if_needed (the handlers below run one
\* at a time)
NoThreads == <<>>

Apply(o) ==
    /\ TOKEN_STORE' = o.store
    /\ resp' = o.resp
    /\ calls' = o.calls
    /\ reg' = o.info
    /\ exchanged' = (exchanged \/ \E i \in 1..Len(o.calls) :
                                     o.calls[i].op = "token_exchange" /\ o.calls[i].status < 400)
    /\ UNCHANGED <<now, configured, exercises, threads>>

Tick ==
    /\ now < MaxTime
    /\ now' = now + 1
    /\ UNCHANGED <<TOKEN_STORE, configured, exercises, req, resp, calls, reg, exchanged, threads>>

polar_status ==
    /\ req' = Other("status")
    /\ Apply(StatusOutcome(TOKEN_STORE, now))

root ==
    /\ req' = Other("root")
    /\ Apply(RootOutcome(TOKEN_STORE))

polar_oauth_start ==
    /\ req' = Other("start")
    /\ Apply(StartOutcome(TOKEN_STORE, configured))

polar_oauth_callback ==
    \E code \in {None, <<99>>}, tok \in TokenAnswers :
       \E rg \in RegisterChoices(ExchangeWrite(TOKEN_STORE, now, tok.body)) :
          /\ req' = CallbackReq(code)
          /\ Apply(CallbackOutcome(TOKEN_STORE, now, configured, code, tok, rg))

polar_workouts(q) ==
    /\ req' = q
    /\ \E tok \in TokenChoices(TOKEN_STORE, now, configured) :
          \E rg \in RegisterChoices(_refresh_token_if_needed(TOKEN_STORE, now, configured, tok).store) :
             Apply(WorkoutsOutcome(TOKEN_STORE, now, configured, q, tok, rg, exercises))

polar_sleep ==
    /\ req' = Other("sleep")
    /\ \E tok \in TokenChoices(TOKEN_STORE, now, configured) :
          \E rg \in RegisterChoices(_refresh_token_if_needed(TOKEN_STORE, now, configured, tok).store) :
             Apply(StubOutcome(TOKEN_STORE, now, configured, tok, rg, "sleep_stub"))

polar_sync ==
    /\ req' = Other("sync")
    /\ \E tok \in TokenChoices(TOKEN_STORE, now, configured) :
          \E rg \in RegisterChoices(_refresh_token_if_needed(TOKEN_STORE, now, configured, tok).store) :
             Apply(StubOutcome(TOKEN_STORE, now, configured, tok, rg, "sync_stub"))

----------------------------------------------------------------------------
(* Spec: the service from process start, any sequence of requests *)

NoRequest == Response("none", 0, "none", EmptyObj)

\* the upstream exercise data under Spec: two exercises, listed inside an
\* object or as a bare list, and a failing list endpoint
MainItems ==
    << Item([id |-> ExId(1)], Answer(200, ("start-time" :> StartTime(Day2, 0)))),
       Item([id |-> ExId(2)], Answer(404, EmptyObj)) >>
MainListings ==
    { Listing(200, "object", MainItems),
      Listing(200, "list", MainItems),
      Listing(500, "object", <<>>) }

\* the /polar/workouts queries under Spec
MainQueries ==
    { Query(None, None, DateOf(Day3), 1),
      Query(DateOf(Day2), None, DateOf(Day3), 1),
      Query(None, DateOf(Day1), DateOf(Day2), 2) }

Init ==
    /\ TOKEN_STORE = TOKEN_STORE_Init
    /\ now = 0
    /\ configured \in BOOLEAN
    /\ exercises \in MainListings
    /\ req = Other("none")
    /\ resp = NoRequest
    /\ calls = <<>>
    /\ reg = NotCalled
    /\ exchanged = FALSE
    /\ threads = NoThreads

Workouts == \E q \in MainQueries : polar_workouts(q)

Next ==
    \/ Tick
    \/ polar_status
    \/ root
    \/ polar_oauth_start
    \/ polar_oauth_callback
    \/ Workouts
    \/ polar_sleep
    \/ polar_sync

Spec == Init /\ [][Next]_vars

----------------------------------------------------------------------------
(* SpecWorkouts: one /polar/workouts request against every upstream        *)
(* listing of up to MaxItems exercises, on a connected store               *)

Pending == Response("pending", 0, "pending", EmptyObj)

\* the store after a callback at time 0 answered with "a1"/"r1"/61 whose
\* registration was answered with id "u1", and the same after a 409
WorkoutStores ==
    { [access_token |-> A1, refresh_token |-> R1, expires_at |-> 61,
       connected |-> TRUE, polar_user_id |-> uid] : uid \in {U1, None} }

RECURSIVE ItemSeqsUpTo(_)
ItemSeqsUpTo(n) == IF n = 0 THEN ItemSeqs(0) ELSE ItemSeqs(n) \cup ItemSeqsUpTo(n - 1)

WorkoutListings ==
    {Listing(200, "object", items) : items \in ItemSeqsUpTo(MaxItems)}
        \cup {Listing(200, "list", <<>>), Listing(500, "object", <<>>)}

WorkoutQueries ==
    { Query(f[1], f[2], to, limit) :
        f \in {<<None, None>>, <<DateOf(Day2), None>>, <<DateOf(Day1), DateOf(Day2)>>},
        to \in {DateOf(Day2), DateOf(Day3)},
        limit \in 1..MaxLimit }

InitWorkouts ==
    /\ TOKEN_STORE \in WorkoutStores
    /\ now = 0
    /\ configured = TRUE
    /\ exercises \in WorkoutListings
    /\ req \in WorkoutQueries
    /\ resp = Pending
    /\ calls = <<>>
    /\ reg = NotCalled
    /\ exchanged = TRUE
    /\ threads = NoThreads

HandlePending ==
    /\ resp = Pending
    /\ polar_workouts(req)

NextWorkouts == HandlePending

SpecWorkouts == InitWorkouts /\ [][NextWorkouts]_vars

----------------------------------------------------------------------------
(* SpecRefresh: NumThreads requests run _refresh_token_if_needed at the     *)
(* same time (FastAPI runs `def` handlers on a thread pool); one step per   *)
(* read or write of TOKEN_STORE, no lock                                    *)

Threads == 1..NumThreads

\* a thread: pc is the line it is about to run, data the JSON body of its
\* refresh answer, rt the refresh_token it read at line 90, at the time it
\* read at line 92, outcome how its call ended
Thread(pc, data, rt, at, outcome) ==
    [pc |-> pc, data |-> data, rt |-> rt, at |-> at, outcome |-> outcome]

\* the record after a callback at time 0 answered "a1"/"r1"/61 and registered
\* as "u1": its token is past the safety buffer from time 1 on
RefreshStore ==
    [access_token |-> A1, refresh_token |-> R1, expires_at |-> 61,
     connected |-> TRUE, polar_user_id |-> U1]

\* answers of the token endpoint to the concurrent refreshes
RefreshAnswers ==
    { Answer(200, [access_token |-> A1, refresh_token |-> R1, expires_in |-> 61]),
      Answer(200, [access_token |-> A2, expires_in |-> 62]),
      Answer(200, [access_token |-> A2, refresh_token |-> R2, expires_in |-> 62]),
      Failure }

InitRefresh ==
    /\ TOKEN_STORE = RefreshStore
    /\ now = 1
    /\ configured = TRUE
    /\ exercises = Listing(200, "object", <<>>)
    /\ req = Other("sync")
    /\ resp = Pending
    /\ calls = <<>>
    /\ reg = NotCalled
    /\ exchanged = TRUE
    /\ threads = [p \in Threads |-> Thread("is_valid", EmptyObj, None, 0, "running")]

Step(p, pc, next) ==
    /\ threads[p].pc = pc
    /\ threads' = [threads EXCEPT ![p] = next]

Finish(th, outcome) == [th EXCEPT !.pc = "done", !.outcome = outcome]

FrameRefresh == UNCHANGED <<now, configured, exercises, req, resp, calls, reg, exchanged>>

\* line 65: `if _is_token_valid(): return`
CheckValid(p) ==
    /\ Step(p, "is_valid",
            IF _is_token_valid(TOKEN_STORE, now)
            THEN Finish(threads[p], "valid")
            ELSE [threads[p] EXCEPT !.pc = "has_refresh_token"])
    /\ UNCHANGED TOKEN_STORE
    /\ FrameRefresh

\* lines 68-71: `if not TOKEN_STORE["refresh_token"]: raise`, _require_config
CheckRefreshToken(p) ==
    /\ Step(p, "has_refresh_token",
            IF ~Truthy(TOKEN_STORE.refresh_token)
            THEN Finish(threads[p], "not_connected")
            ELSE IF Raised(_require_config(configured))
            THEN Finish(threads[p], "missing_env_vars")
            ELSE [threads[p] EXCEPT !.pc = "post"])
    /\ UNCHANGED TOKEN_STORE
    /\ FrameRefresh

\* lines 73-87: the POST, its answer, `if resp.status_code >= 400: raise`
PostRefresh(p) ==
    /\ \E ans \in RefreshAnswers :
          Step(p, "post",
               IF ans.status >= 400
               THEN Finish(threads[p], "refresh_failed")
               ELSE [threads[p] EXCEPT !.pc = "write_access_token", !.data = ans.body])
    /\ UNCHANGED TOKEN_STORE
    /\ FrameRefresh

\* line 89
WriteAccessToken(p) ==
    /\ Step(p, "write_access_token", [threads[p] EXCEPT !.pc = "read_refresh_token"])
    /\ TOKEN_STORE' = [TOKEN_STORE EXCEPT
                          !.access_token = Get(threads[p].data, "access_token", None)]
    /\ FrameRefresh

\* line 90, right-hand side: the stored refresh_token is read
ReadRefreshToken(p) ==
    /\ Step(p, "read_refresh_token",
            [threads[p] EXCEPT !.pc = "write_refresh_token", !.rt = TOKEN_STORE.refresh_token])
    /\ UNCHANGED TOKEN_STORE
    /\ FrameRefresh

\* line 90, the assignment
WriteRefreshToken(p) ==
    /\ Step(p, "write_refresh_token", [threads[p] EXCEPT !.pc = "write_expires_at"])
    /\ TOKEN_STORE' = [TOKEN_STORE EXCEPT
                          !.refresh_token =
                              PyOr(Get(threads[p].data, "refresh_token", None), threads[p].rt)]
    /\ FrameRefresh

\* lines 91-92
WriteExpiresAt(p) ==
    /\ Step(p, "write_expires_at", [threads[p] EXCEPT !.pc = "write_connected", !.at = now])
    /\ TOKEN_STORE' = [TOKEN_STORE EXCEPT
                          !.expires_at = now + Get(threads[p].data, "expires_in", 0)]
    /\ FrameRefresh

\* line 93
WriteConnected(p) ==
    /\ Step(p, "write_connected", Finish(threads[p], "refreshed"))
    /\ TOKEN_STORE' = [TOKEN_STORE EXCEPT !.connected = TRUE]
    /\ FrameRefresh

NextRefresh ==
    \/ Tick
    \/ \E p \in Threads : CheckValid(p)
    \/ \E p \in Threads : CheckRefreshToken(p)
    \/ \E p \in Threads : PostRefresh(p)
    \/ \E p \in Threads : WriteAccessToken(p)
    \/ \E p \in Threads : ReadRefreshToken(p)
    \/ \E p \in Threads : WriteRefreshToken(p)
    \/ \E p \in Threads : WriteExpiresAt(p)
    \/ \E p \in Threads : WriteConnected(p)

SpecRefresh == InitRefresh /\ [][NextRefresh]_vars

----------------------------------------------------------------------------
(* Vocabulary of the properties *)

DataOps == {"workouts", "sleep", "sync"}

HasCall(cs, op) == \E i \in 1..Len(cs) : cs[i].op = op

\* the last request went past the validity check of _refresh_token_if_needed
\* without refreshing: neither a refresh call nor one of its two errors
TreatedValid ==
    /\ ~HasCall(calls, "token_refresh")
    /\ resp.detail \notin {"not_connected", "missing_env_vars"}

\* a "YYYY-MM-DD" string read as a number yyyymmdd
DayNumber(date) ==
    LET v(k) == date[k] - 48
    IN  (v(1) * 1000 + v(2) * 100 + v(3) * 10 + v(4)) * 10000
          + (v(6) * 10 + v(7)) * 100 + (v(9) * 10 + v(10))

\* the day of a start time lies in the calendar range [from, to]
InRange(start_time, from, to) ==
    /\ DayNumber(from) <= DayNumber(Prefix(start_time, 10))
    /\ DayNumber(Prefix(start_time, 10)) <= DayNumber(to)

\* the `from` of a query: the alias if given, else from_date
FromOf(q) == IF Truthy(q.from_alias) THEN q.from_alias ELSE q.from_date

\* an upstream item that has an id and whose detail fetch succeeds
Fetchable(it) == Truthy(ExerciseIdOf(it.ex)) /\ it.detail.status < 400
Dated(it) == Truthy(StartTimeOf(it.detail.body))
InRangeItem(it) ==
    Fetchable(it) /\ Dated(it) /\ InRange(StartTimeOf(it.detail.body), FromOf(req), req.to)
UndatedItem(it) == Fetchable(it) /\ ~Dated(it)

FirstN(seq, n) == SubSeq(seq, 1, IF Len(seq) < n THEN Len(seq) ELSE n)
IdsOf(items) == [i \in 1..Len(items) |-> ExerciseIdOf(items[i].ex)]
ResultIds == [i \in 1..Len(resp.body.workouts) |-> resp.body.workouts[i].id]

\* the last request was a /polar/workouts request that returned workouts
Listed == req.op = "workouts" /\ resp.kind = "ok"

\* the detail call of exercise id was issued and answered with status < 400
DetailOk(id) ==
    \E i \in 1..Len(calls) : calls[i].op = "detail" /\ calls[i].id = id /\ calls[i].status < 400
Returned(id) == \E k \in 1..Len(ResultIds) : ResultIds[k] = id

----------------------------------------------------------------------------
(* Properties *)

\* C1: a data request treats the token as valid exactly when the claim says
\* _is_token_valid is true: false without access_token, false whenever
\* now >= expires_at - 60 (the boundary included), true in every other case.
C1_IsTokenValid ==
    [][ (now' = now /\ req'.op \in DataOps) =>
          (TreatedValid' <=>
             (IF TOKEN_STORE.access_token = None THEN FALSE
              ELSE IF now >= TOKEN_STORE.expires_at - 60 THEN FALSE
              ELSE TRUE)) ]_vars

\* a data request met a stored token exactly at now = expires_at - 60 and
\* went on to refresh it (the refresh was rejected, so the record is as it was)
C1_Witness ==
    /\ req.op \in DataOps
    /\ TOKEN_STORE.access_token # None
    /\ now = TOKEN_STORE.expires_at - 60
    /\ HasCall(calls, "token_refresh")
    /\ resp.detail = "refresh_failed"

\* C2: after a refresh answered with status < 400 the stored refresh_token is
\* the one of the answer if the answer supplied one (a non-empty one), and
\* otherwise the refresh_token stored before the call.
C2_RefreshTokenKept ==
    [][ now' = now =>
          \A i \in 1..Len(calls') :
             (calls'[i].op = "token_refresh" /\ calls'[i].status < 400) =>
                TOKEN_STORE'.refresh_token =
                   (IF "refresh_token" \in DOMAIN calls'[i].body
                         /\ calls'[i].body.refresh_token \notin {None, EmptyStr}
                    THEN calls'[i].body.refresh_token
                    ELSE TOKEN_STORE.refresh_token) ]_vars

\* a refresh answer without refresh_token replaced the access token and the
\* stored refresh token is still there
C2_Witness ==
    /\ \E i \in 1..Len(calls) :
          /\ calls[i].op = "token_refresh" /\ calls[i].status < 400
          /\ "refresh_token" \notin DOMAIN calls[i].body
          /\ TOKEN_STORE.access_token = calls[i].body.access_token
    /\ TOKEN_STORE.refresh_token \in {R1, R2}

\* C3: while no code exchange has succeeded, every data request ends with
\* the 401 HTTPException (not a fault) and issues no upstream call.
C3_Unauthenticated ==
    (~exchanged /\ req.op \in DataOps) =>
        (resp.kind = "error" /\ resp.status = 401 /\ calls = <<>>)

\* a data request answered 401 on the record of process start
C3_Witness ==
    /\ ~exchanged
    /\ req.op \in DataOps
    /\ resp.kind = "error" /\ resp.status = 401
    /\ TOKEN_STORE = TOKEN_STORE_Init

\* C4 as stated: when a request's _register_user_if_needed POSTed from a
\* record without id and was answered with status < 400, the call of the next
\* request issues no registration POST and returns the stored id.
C4_AsStated ==
    [][ (now' = now /\ reg.posted /\ reg.status < 400 /\ reg'.called) =>
          (/\ ~reg'.posted
           /\ ~HasCall(calls', "register")
           /\ Truthy(reg'.ret)
           /\ reg'.ret = TOKEN_STORE'.polar_user_id) ]_vars

\* C4 amended: the same, provided the successful answer carried a non-empty
\* id under "user-id", "user_id" or "id".
C4_RegisterOnce ==
    [][ (now' = now /\ reg.posted /\ reg.status < 400 /\ Truthy(reg.answered)
           /\ reg'.called) =>
          (/\ ~reg'.posted
           /\ ~HasCall(calls', "register")
           /\ Truthy(reg'.ret)
           /\ reg'.ret = TOKEN_STORE'.polar_user_id) ]_vars

\* a call of _register_user_if_needed that found the id stored, made no
\* POST and returned it
C4_Witness ==
    /\ reg.called /\ ~reg.posted
    /\ ~HasCall(calls, "register")
    /\ reg.ret = U1
    /\ TOKEN_STORE.polar_user_id = U1

\* C5: when POST /v3/users answers 409, _register_user_if_needed raises
\* nothing and the whole token record is as it was when the helper was called.
C5_Conflict ==
    (reg.posted /\ reg.status = 409) =>
        (/\ ~reg.raised
         /\ resp.detail # "register_user_failed"
         /\ TOKEN_STORE = reg.before)

\* a /polar/sync request on a connected record got 409 and completed
C5_Witness ==
    /\ reg.posted /\ reg.status = 409
    /\ req.op = "sync" /\ resp.kind = "ok"
    /\ TOKEN_STORE.connected

\* C6 as stated: the workouts returned are exactly the first `limit`
\* in-range items, in upstream listing order.
C6_AsStated ==
    Listed => ResultIds = FirstN(IdsOf(SelectSeq(exercises.exercises, InRangeItem)), req.limit)

\* C6 amended: the workouts returned are at most `limit`, and exactly the
\* first `limit` items, in upstream listing order, among those that have an
\* id, whose detail fetch succeeds, and that are in range or have no start time.
C6_FirstLimit ==
    Listed =>
        LET Kept(it) == InRangeItem(it) \/ UndatedItem(it)
        IN  /\ Len(ResultIds) <= req.limit
            /\ ResultIds = FirstN(IdsOf(SelectSeq(exercises.exercises, Kept)), req.limit)

\* limit = 2, three in-range upstream items, the first two returned
C6_Witness ==
    /\ Listed
    /\ req.limit = 2
    /\ Len(exercises.exercises) = 3
    /\ \A i \in 1..3 : InRangeItem(exercises.exercises[i])
    /\ ResultIds = <<ExerciseIdOf(exercises.exercises[1].ex), ExerciseIdOf(exercises.exercises[2].ex)>>

\* C7 as stated: every workout in the result lies inside [from, to], and
\* every fetched item dated inside [from, to], the two ends included, is in it.
C7_AsStated ==
    Listed =>
        /\ \A k \in 1..Len(resp.body.workouts) :
              /\ Truthy(resp.body.workouts[k].startTime)
              /\ InRange(resp.body.workouts[k].startTime, FromOf(req), req.to)
        /\ \A i \in 1..Len(exercises.exercises) :
              (DetailOk(ExerciseIdOf(exercises.exercises[i].ex)) /\ InRangeItem(exercises.exercises[i]))
                 => Returned(ExerciseIdOf(exercises.exercises[i].ex))

\* C7 amended: every workout in the result that has a start time lies inside
\* [from, to]; a fetched item with a start time is in the result exactly when
\* its date is inside [from, to], the two ends included; a fetched item
\* without start time is returned whatever the range.
C7_DateFilter ==
    Listed =>
        /\ \A k \in 1..Len(resp.body.workouts) :
              Truthy(resp.body.workouts[k].startTime) =>
                 InRange(resp.body.workouts[k].startTime, FromOf(req), req.to)
        /\ \A i \in 1..Len(exercises.exercises) :
              LET it == exercises.exercises[i]
              IN  (DetailOk(ExerciseIdOf(it.ex)) /\ Dated(it)) =>
                     (Returned(ExerciseIdOf(it.ex)) <=> InRangeItem(it))
        /\ \A i \in 1..Len(exercises.exercises) :
              LET it == exercises.exercises[i]
              IN  (DetailOk(ExerciseIdOf(it.ex)) /\ ~Dated(it)) => Returned(ExerciseIdOf(it.ex))

\* one item dated `from`, one dated `to` (another day) returned, and one
\* fetched item dated outside the range left out
C7_Witness ==
    /\ Listed
    /\ FromOf(req) # req.to
    /\ \E i, j, k \in 1..Len(exercises.exercises) :
          LET a == exercises.exercises[i]
              b == exercises.exercises[j]
              c == exercises.exercises[k]
          IN  /\ Fetchable(a) /\ Dated(a)
              /\ Prefix(StartTimeOf(a.detail.body), 10) = FromOf(req)
              /\ Returned(ExerciseIdOf(a.ex))
              /\ Fetchable(b) /\ Dated(b)
              /\ Prefix(StartTimeOf(b.detail.body), 10) = req.to
              /\ Returned(ExerciseIdOf(b.ex))
              /\ DetailOk(ExerciseIdOf(c.ex)) /\ Dated(c) /\ ~InRangeItem(c)
              /\ ~Returned(ExerciseIdOf(c.ex))

\* C8: when a detail fetch of a /polar/workouts request answers with status
\* >= 400, the request still completes with a result, the item is not in it,
\* every item fetched successfully that passes the date filter is, and
\* `count` is the number of workouts returned.
C8_DetailFailureSkipped ==
    /\ \A i \in 1..Len(calls) :
          (calls[i].op = "detail" /\ calls[i].status >= 400) =>
             (Listed /\ ~Returned(calls[i].id))
    /\ Listed =>
          /\ resp.body.count = Len(resp.body.workouts)
          /\ \A i \in 1..Len(exercises.exercises) :
                LET it == exercises.exercises[i]
                IN  (DetailOk(ExerciseIdOf(it.ex)) /\ (InRangeItem(it) \/ UndatedItem(it)))
                       => Returned(ExerciseIdOf(it.ex))

\* a detail fetch failed and an item fetched after it was returned
C8_Witness ==
    /\ Listed
    /\ resp.body.count = 1
    /\ \E i, j \in 1..Len(calls) :
          /\ i < j
          /\ calls[i].op = "detail" /\ calls[i].status >= 400
          /\ calls[j].op = "detail" /\ calls[j].status < 400
          /\ Returned(calls[j].id)

\* C9: a /polar/workouts request with neither from_date nor from ends in a
\* client error (4xx) and issues no upstream call.
C9_AsStated ==
    (req.op = "workouts" /\ ~Truthy(req.from_date) /\ ~Truthy(req.from_alias)) =>
        (/\ resp.kind = "error"
         /\ resp.status >= 400 /\ resp.status < 500
         /\ calls = <<>>)

\* C10: once TOKEN_STORE.connected is true it stays true.
C10_ConnectedMonotonic ==
    [][ TOKEN_STORE.connected => TOKEN_STORE'.connected ]_vars

\* a connected record after a rejected refresh or a rejected code exchange
C10_Witness ==
    /\ TOKEN_STORE.connected
    /\ resp.detail \in {"refresh_failed", "token_exchange_failed"}

\* the four token fields of a store
TokenFields(s) == <<s.access_token, s.refresh_token, s.expires_at, s.connected>>

\* the call of kind op among cs that was answered below / from 400
Succeeded(cs, op) == \E i \in 1..Len(cs) : cs[i].op = op /\ cs[i].status < 400
Rejected(cs, op) == \E i \in 1..Len(cs) : cs[i].op = op /\ cs[i].status >= 400

\* C11: a callback without code, or whose code exchange the upstream answers
\* with status >= 400, ends with an error, writes none of the four token
\* fields, and makes no registration call.
C11_FailedExchange ==
    [][ (now' = now /\ req'.op = "callback"
           /\ (~Truthy(req'.code) \/ Rejected(calls', "token_exchange"))) =>
          (/\ resp'.kind = "error"
           /\ TokenFields(TOKEN_STORE') = TokenFields(TOKEN_STORE)
           /\ ~HasCall(calls', "register")
           /\ ~reg'.called) ]_vars

\* a rejected code exchange on a record that already holds tokens
C11_Witness ==
    /\ req.op = "callback"
    /\ Truthy(req.code)
    /\ Rejected(calls, "token_exchange")
    /\ resp.detail = "token_exchange_failed"
    /\ TOKEN_STORE.access_token = A1

\* the registration POST of the request was answered with an error status
\* other than 409
RegistrationFailed(cs) ==
    \E i \in 1..Len(cs) : cs[i].op = "register" /\ cs[i].status >= 400 /\ cs[i].status # 409

\* the four token fields that a code exchange answered with JSON body data at
\* time t leaves
ExchangedFields(data, t) ==
    << IF "access_token" \in DOMAIN data THEN data.access_token ELSE None,
       IF "refresh_token" \in DOMAIN data THEN data.refresh_token ELSE None,
       t + (IF "expires_in" \in DOMAIN data THEN data.expires_in ELSE 0),
       TRUE >>

\* C12: when the code exchange of a callback succeeds and the registration
\* after it fails, the callback answers normally with the registration-failed
\* variant (ok false, no polar_user_id), and the tokens of the exchange are
\* stored with connected = true.
C12_RegistrationSoftFail ==
    [][ (now' = now /\ req'.op = "callback" /\ Succeeded(calls', "token_exchange")
           /\ RegistrationFailed(calls')) =>
          (/\ resp'.kind = "ok"
           /\ resp'.body.ok = FALSE
           /\ "polar_user_id" \notin DOMAIN resp'.body
           /\ TokenFields(TOKEN_STORE') = ExchangedFields(calls'[1].body, now)) ]_vars

\* a callback stored "a1"/"r1" and answered ok = false after a failed registration
C12_Witness ==
    /\ req.op = "callback"
    /\ Succeeded(calls, "token_exchange")
    /\ RegistrationFailed(calls)
    /\ resp.kind = "ok" /\ resp.body.ok = FALSE
    /\ TOKEN_STORE.access_token = A1 /\ TOKEN_STORE.refresh_token = R1
    /\ TOKEN_STORE.connected

\* C13: whichever shape the exercise listing has (an object holding the list,
\* or the bare list), a /polar/workouts request that got the listing returns
\* the workouts that the listed items give.
C13_AsStated ==
    (req.op = "workouts" /\ Succeeded(calls, "list")) =>
        (/\ resp.kind = "ok"
         /\ resp.body.workouts =
               CollectWorkouts(exercises.exercises, 1, <<>>, <<>>, TOKEN_STORE,
                               FromOf(req), req.to, req.limit).workouts)

\* every concurrent _refresh_token_if_needed has returned or raised
AllDone == \A p \in Threads : threads[p].pc = "done"

\* the record holds what the refresh answer of thread p alone would leave
FromAnswerOf(p) ==
    LET data == threads[p].data
    IN  /\ threads[p].outcome = "refreshed"
        /\ TOKEN_STORE.access_token =
              (IF "access_token" \in DOMAIN data THEN data.access_token ELSE None)
        /\ TOKEN_STORE.expires_at =
              threads[p].at + (IF "expires_in" \in DOMAIN data THEN data.expires_in ELSE 0)
        /\ ("refresh_token" \in DOMAIN data => TOKEN_STORE.refresh_token = data.refresh_token)

\* C14: once the concurrent refreshes of an expired token have all finished,
\* and at least one of them was answered with status < 400, access_token,
\* expires_at and (when supplied) refresh_token in the record all come from
\* one and the same refresh answer.
C14_AsStated ==
    (AllDone /\ \E p \in Threads : threads[p].outcome = "refreshed") =>
        \E p \in Threads : FromAnswerOf(p)

\* C15: once polar_user_id holds an id, no step changes it and no request
\* issues an upstream registration call, whatever the request is (a further
\* successful callback, a refresh, a data request).
C15_UserIdPermanent ==
    [][ Truthy(TOKEN_STORE.polar_user_id) =>
          (/\ TOKEN_STORE'.polar_user_id = TOKEN_STORE.polar_user_id
           /\ (now' = now => ~HasCall(calls', "register"))) ]_vars

\* a successful callback on a registered record: the tokens are overwritten
\* with the second answer, the id stays, no registration call
C15_Witness ==
    /\ req.op = "callback"
    /\ Succeeded(calls, "token_exchange")
    /\ reg.called /\ ~reg.posted
    /\ Truthy(reg.before.polar_user_id)
    /\ TOKEN_STORE.polar_user_id = reg.before.polar_user_id
    /\ TOKEN_STORE.access_token = A2
    /\ ~HasCall(calls, "register")

\* C16: a polar_workouts request whose registration call is answered with a
\* status >= 400 other than 409 ends with the registration error, not with a
\* success response, and issues no exercise-list and no exercise-detail call.
C16_RegistrationAborts ==
    (req.op = "workouts" /\ RegistrationFailed(calls)) =>
        (/\ resp.kind = "error"
         /\ resp.status = 400
         /\ resp.detail = "register_user_failed"
         /\ ~HasCall(calls, "list")
         /\ ~HasCall(calls, "detail"))

\* a workouts request with `from` given that got as far as a rejected
\* registration
C16_Witness ==
    /\ req.op = "workouts"
    /\ Truthy(FromOf(req))
    /\ RegistrationFailed(calls)
    /\ reg.called /\ reg.posted /\ reg.raised
    /\ resp.detail = "register_user_failed"

\* the validity test of line 61, written out
ValidAt(s, t) == s.access_token # None /\ t < s.expires_at - SafetyBuffer

\* C17: in a data request on a record whose token is valid, no refresh call
\* is issued and _refresh_token_if_needed leaves the whole record as it was;
\* whenever _register_user_if_needed runs on a record that holds an id, it
\* issues no registration call, leaves the whole record as it was and
\* returns the stored id; so a data request on a valid, registered record
\* leaves the record as it was, and repeating it meets the same record.
C17_NoOp ==
    [][ (now' = now /\ req'.op \in DataOps \cup {"callback"}) =>
          (/\ (req'.op \in DataOps /\ ValidAt(TOKEN_STORE, now)) =>
                 (/\ ~HasCall(calls', "token_refresh")
                  /\ resp'.detail \notin {"not_connected", "refresh_failed"}
                  /\ IF reg'.called THEN reg'.before = TOKEN_STORE
                                    ELSE TOKEN_STORE' = TOKEN_STORE)
           /\ (reg'.called /\ Truthy(reg'.before.polar_user_id)) =>
                 (/\ ~reg'.posted
                  /\ ~HasCall(calls', "register")
                  /\ ~reg'.raised
                  /\ reg'.ret = reg'.before.polar_user_id
                  /\ TOKEN_STORE' = reg'.before)
           /\ (req'.op \in DataOps /\ ValidAt(TOKEN_STORE, now)
                  /\ Truthy(TOKEN_STORE.polar_user_id)) =>
                 (/\ TOKEN_STORE' = TOKEN_STORE
                  /\ ~HasCall(calls', "token_refresh")
                  /\ ~HasCall(calls', "register"))) ]_vars

\* a sync request on a valid, registered record: no upstream call at all
C17_Witness ==
    /\ req.op = "sync"
    /\ resp.kind = "ok"
    /\ calls = <<>>
    /\ reg.called /\ ~reg.posted
    /\ reg.before = TOKEN_STORE
    /\ ValidAt(TOKEN_STORE, now)
    /\ Truthy(TOKEN_STORE.polar_user_id)

\* the four token fields that a refresh answered with JSON body data at time
\* t leaves of a store s
RefreshedFields(s, data, t) ==
    << IF "access_token" \in DOMAIN data THEN data.access_token ELSE None,
       IF "refresh_token" \in DOMAIN data /\ Truthy(data.refresh_token)
          THEN data.refresh_token ELSE s.refresh_token,
       t + (IF "expires_in" \in DOMAIN data THEN data.expires_in ELSE 0),
       TRUE >>

\* a step that leaves the four token fields alone, or is a callback that
\* overwrites them from its exchange answer, or a data request that
\* overwrites them from its refresh answer
TokenFieldsStep ==
    now' = now =>
       \/ TokenFields(TOKEN_STORE') = TokenFields(TOKEN_STORE)
       \/ /\ req'.op = "callback"
          /\ Succeeded(calls', "token_exchange")
          /\ TokenFields(TOKEN_STORE') = ExchangedFields(calls'[1].body, now)
       \/ /\ req'.op \in DataOps
          /\ Succeeded(calls', "token_refresh")
          /\ TokenFields(TOKEN_STORE') = RefreshedFields(TOKEN_STORE, calls'[1].body, now)

\* C18: a request changes the four token fields only as a callback whose
\* code exchange succeeded (all four overwritten from the answer) or through
\* a refresh that succeeded (access_token and expires_at overwritten from
\* the answer, refresh_token kept if the answer omits it); every other
\* request, every failed one included, leaves the four fields as they were.
C18_AsStated == [][TokenFieldsStep]_vars

\* a request that failed on int() of the answer's expires_in
IntRaised == resp.kind = "fault" /\ resp.detail = "int_expires_in"

\* every request but those that fail on int() of expires_in changes the
\* token fields in one of the two stated ways only
TokenFieldsOtherwise == [][ ~IntRaised' => TokenFieldsStep ]_vars

\* the states of the token lifecycle: no usable access token and no refresh
\* path; expired with a refresh token held
Unauthenticated(s, t) == ~ValidAt(s, t) /\ ~Truthy(s.refresh_token)
Expired(s, t) == ~ValidAt(s, t) /\ Truthy(s.refresh_token)

\* a refresh answer that carries an access token that outlives the safety
\* buffer
UsableAnswer(data) ==
    /\ "access_token" \in DOMAIN data /\ data.access_token # None
    /\ "expires_in" \in DOMAIN data /\ data.expires_in # Null
    /\ data.expires_in > SafetyBuffer

\* C19 as stated: a data request on an expired record with a refresh token
\* whose refresh is answered with status < 400 and returns normally leaves
\* a valid token; and a record that was not Unauthenticated becomes
\* Unauthenticated only in a request whose refresh was rejected.
C19_AsStated ==
    [][ /\ (now' = now /\ req'.op \in DataOps /\ Expired(TOKEN_STORE, now)
              /\ Succeeded(calls', "token_refresh") /\ ~IntRaised') =>
                 ValidAt(TOKEN_STORE', now)
        /\ (~Unauthenticated(TOKEN_STORE, now) /\ Unauthenticated(TOKEN_STORE', now')) =>
                 (now' = now /\ Rejected(calls', "token_refresh")) ]_vars

\* C19: from an expired record with a refresh token, a refresh answered with
\* status < 400 and a body that carries an access token and an integer
\* expires_in above 60 leaves a valid token; after any refresh, rejected or
\* not, the refresh token is still held, so no refresh makes the record
\* Unauthenticated; a record becomes Unauthenticated only by the passing of
\* time or in a callback whose code exchange was answered with status < 400.
C19_Lifecycle ==
    [][ /\ (now' = now /\ req'.op \in DataOps /\ Expired(TOKEN_STORE, now)
              /\ Succeeded(calls', "token_refresh") /\ UsableAnswer(calls'[1].body)) =>
                 (ValidAt(TOKEN_STORE', now) /\ ~IntRaised')
        /\ (now' = now /\ HasCall(calls', "token_refresh")) =>
                 (/\ Expired(TOKEN_STORE, now)
                  /\ Truthy(TOKEN_STORE'.refresh_token)
                  /\ ~Unauthenticated(TOKEN_STORE', now))
        /\ (~Unauthenticated(TOKEN_STORE, now) /\ Unauthenticated(TOKEN_STORE', now')) =>
                 \/ now' = now + 1 /\ TOKEN_STORE' = TOKEN_STORE
                 \/ now' = now /\ req'.op = "callback" /\ Succeeded(calls', "token_exchange") ]_vars

\* a data request whose refresh of an expired token succeeded and left a
\* valid token
C19_Witness ==
    /\ req.op \in DataOps
    /\ Succeeded(calls, "token_refresh")
    /\ UsableAnswer(calls[1].body)
    /\ reg.called
    /\ reg.before = TOKEN_STORE
    /\ ValidAt(TOKEN_STORE, now)
    /\ now > 0

\* C20: a request whose refresh the upstream rejects (status >= 400) ends
\* with the refresh-failed error (400) and leaves the whole record as it was,
\* the refresh token included; the data request that comes next issues the
\* refresh call again.
C20_RejectedRefresh ==
    [][ /\ (now' = now /\ Rejected(calls', "token_refresh")) =>
              (/\ resp'.kind = "error"
               /\ resp'.status = 400
               /\ resp'.detail = "refresh_failed"
               /\ ~reg'.called
               /\ Len(calls') = 1
               /\ TOKEN_STORE' = TOKEN_STORE
               /\ Truthy(TOKEN_STORE'.refresh_token))
        /\ (now' = now /\ resp.detail = "refresh_failed" /\ req'.op \in DataOps) =>
              HasCall(calls', "token_refresh") ]_vars

\* a rejected refresh; the record still holds the expired token and the
\* refresh token
C20_Witness ==
    /\ req.op \in DataOps
    /\ Rejected(calls, "token_refresh")
    /\ resp.detail = "refresh_failed"
    /\ TOKEN_STORE.access_token # None
    /\ Expired(TOKEN_STORE, now)

====
